---- MODULE Spec2Model ----
(***************************************************************************)
(* Model of the MapGL component (shark map): the effect that creates the   *)
(* map, the vector layer and the WebSocket, the message handler that       *)
(* creates or updates one marker per record of a batch, and the zoomend    *)
(* handler that resizes every tracked marker.                              *)
(*                                                                         *)
(* Numbers.  Marker sizes are exact rationals [n, d] in lowest terms       *)
(* (10 * 1.3^(zoom-2) = 10 * 13^e / 10^e); floating-point rounding is not  *)
(* modelled.  rotation_rad is carried as a count of quarter-pi units, so   *)
(* that rotation_rad * 180 / Math.PI is the integer (k * 180) \div 4.      *)
(* Zoom levels are the integers 0..MaxZoom.                                *)
(***************************************************************************)
EXTENDS Integers, Sequences, FiniteSets, TLC

\* ------------------------------------------------------------------ bounds
MaxBatch == 2      \* longest sharks array in a message
MaxZoom == 3       \* zoom levels are 0..MaxZoom
MaxSetups == 2     \* runs of the effect on one component instance

\* ------------------------------------------------------- JavaScript values
Undefined == [t |-> "undefined"]
Null == [t |-> "null"]
NaN == [t |-> "NaN"]
Num(v) == [t |-> "number", v |-> v]
\* a truthy value that is not an array, e.g. {"sharks": {"a": 1}}
PlainObject == [t |-> "object"]
Arr(items) == [t |-> "array", items |-> items]

\* exact rationals in lowest terms
RECURSIVE GCD(_, _)
GCD(a, b) == IF b = 0 THEN a ELSE GCD(b, a % b)

Rat(n, d) == [n |-> n \div GCD(n, d), d |-> d \div GCD(n, d)]

RECURSIVE IntPow(_, _)
IntPow(b, e) == IF e = 0 THEN 1 ELSE b * IntPow(b, e - 1)

\* ------------------------------------------------------- program constants
zoom == 2          \* MapGLProps.zoom default
baseSize == 10
scaleBaseNum == 13 \* 1.3 = 13 / 10
scaleBaseDen == 10
referenceZoom == 2
QuarterPisPerHalfTurn == 4   \* Math.PI in quarter-pi units

\* Math.pow(1.3, e)
MathPow13(e) ==
    IF e >= 0 THEN Rat(IntPow(scaleBaseNum, e), IntPow(scaleBaseDen, e))
    ELSE Rat(IntPow(scaleBaseDen, 0 - e), IntPow(scaleBaseNum, 0 - e))

\* variant: the exponent is taken the other way round
getMarkerSizeInverted(zoomLevel) ==
    LET scaleFactor == MathPow13(referenceZoom - zoomLevel)
    IN  Rat(baseSize * scaleFactor.n, scaleFactor.d)

getMarkerSize(zoomLevel) ==
    LET scaleFactor == MathPow13(zoomLevel - referenceZoom)
    IN  Rat(baseSize * scaleFactor.n, scaleFactor.d)

\* (rotation_rad * 180) / Math.PI ; undefined * 180 is NaN
RadToDeg(rotation_rad) ==
    IF rotation_rad.t = "number"
    THEN Num((rotation_rad.v * 180) \div QuarterPisPerHalfTurn)
    ELSE NaN

\* ------------------------------------------------------------ wire messages
Pos(x, y) == [t |-> "object", x |-> x, y |-> y]
Shark(position, rotation_rad) ==
    [position |-> position, rotation_rad |-> rotation_rad]

SharkA == Shark(Pos(1, 2), Num(0))          \* (1,2), heading 0
SharkB == Shark(Pos(5, 5), Num(2))          \* (5,5), heading pi/2
SharkNoPosition == Shark(Undefined, Num(0)) \* {"rotation_rad":0,"speed":0}
SharkNoRotation == Shark(Pos(1, 2), Undefined)

WellFormedSharks == {SharkA, SharkB}
Sharks == WellFormedSharks \cup {SharkNoPosition, SharkNoRotation}

RECURSIVE SeqsUpTo(_, _)
SeqsUpTo(S, n) ==
    IF n = 0 THEN {<<>>}
    ELSE LET shorter == SeqsUpTo(S, n - 1)
         IN  shorter \cup {Append(s, e) : s \in shorter, e \in S}

Batches == SeqsUpTo(Sharks, MaxBatch)

\* event.data: a text frame; json = FALSE is a frame JSON.parse rejects
TextFrame == [json |-> FALSE]
JsonFrame(data) == [json |-> TRUE, data |-> data]
Obj(sharks) == [t |-> "object", sharks |-> sharks]

Messages ==
    {TextFrame,
     JsonFrame(Null),                       \* null
     JsonFrame(Obj(Undefined)),             \* {"notSharks":[]}
     JsonFrame(Obj(PlainObject))}           \* {"sharks":{}}
    \cup {JsonFrame(Obj(Arr(b))) : b \in Batches}

IsBatch(msg) == msg.json /\ msg.data.t = "object" /\ msg.data.sharks.t = "array"
BatchOf(msg) == msg.data.sharks.items
HasPosition(shark) == shark.position.t = "object"
HasRotation(shark) == shark.rotation_rad.t = "number"
WellFormed(sharks) ==
    \A i \in 1..Len(sharks) : HasPosition(sharks[i]) /\ HasRotation(sharks[i])

\* -------------------------------------------------------------------- state
VARIABLES
    mapRef,           \* mapRef.current: 0 is null, g is the map of the g-th setup
    mapZoom,          \* what mapRef.current.getZoom() returns
    mapRemoved,       \* map.remove() has been called on mapRef.current
    zoomPending,      \* the zoom changed and "zoomend" has not fired yet
    vectorLayerRef,   \* vectorLayerRef.current: 0 is null, g the g-th layer
    layers,           \* layers[g]: marker ids added to the g-th layer, in order
    sharkMarkersRef,  \* sharkMarkersRef.current: idx -> marker
    nextMarkerId,     \* identity of the next object made by new Marker(...)
    ws,               \* ws[g]: readyState of the socket of the g-th setup
    active,           \* the effect is set up and not yet cleaned up
    last              \* what the last handler that ran did

vars == <<mapRef, mapZoom, mapRemoved, zoomPending, vectorLayerRef, layers,
          sharkMarkersRef, nextMarkerId, ws, active, last>>

Generations == 1..MaxSetups
ZoomLevels == 0..MaxZoom
NoMarkers == [i \in {} |-> Undefined]

\* what a handler did: op, the socket it ran for, the frame it was given,
\* the handler's creations, updates and console.error calls, and whether an
\* exception left the handler
NoFrame == [none |-> TRUE]
Did(op, g, msg, created, updated, logged, escaped) ==
    [op |-> op, g |-> g, msg |-> msg, created |-> created,
     updated |-> updated, logged |-> logged, escaped |-> escaped]
Plain(op, g) == Did(op, g, NoFrame, 0, 0, 0, FALSE)

Init ==
    /\ mapRef = 0
    /\ mapZoom = zoom
    /\ mapRemoved = FALSE
    /\ zoomPending = FALSE
    /\ vectorLayerRef = 0
    /\ layers = [g \in Generations |-> <<>>]
    /\ sharkMarkersRef = NoMarkers
    /\ nextMarkerId = 1
    /\ ws = [g \in Generations |-> "NONE"]
    /\ active = FALSE
    /\ last = Plain("init", 0)

\* ------------------------------------------------------------- the handlers
\* variant: the creation passes rotation_rad on without converting it
NewMarkerRadians(id, shark, size) ==
    [id |-> id, x |-> shark.position.x, y |-> shark.position.y,
     markerWidth |-> size, markerHeight |-> size,
     markerRotation |-> shark.rotation_rad]

\* new Marker([x, y], {symbol: {markerWidth, markerHeight, markerRotation}})
NewMarker(id, shark, size) ==
    [id |-> id, x |-> shark.position.x, y |-> shark.position.y,
     markerWidth |-> size, markerHeight |-> size,
     markerRotation |-> RadToDeg(shark.rotation_rad)]

\* variant: the update forgets setCoordinates
UpdateMarkerRotationOnly(marker, shark) ==
    [marker EXCEPT !.markerRotation = RadToDeg(shark.rotation_rad)]

\* variant: the update also writes the fixed symbol size of a new marker
UpdateMarkerFixedSize(marker, shark) ==
    [marker EXCEPT !.x = shark.position.x, !.y = shark.position.y,
                   !.markerRotation = RadToDeg(shark.rotation_rad),
                   !.markerWidth = Rat(baseSize, 1),
                   !.markerHeight = Rat(baseSize, 1)]

\* variant: the update moves the marker by the record's coordinates
UpdateMarkerTranslates(marker, shark) ==
    [marker EXCEPT !.x = @ + shark.position.x, !.y = @ + shark.position.y,
                   !.markerRotation = RadToDeg(shark.rotation_rad)]

\* setCoordinates([x, y]) then updateSymbol({markerRotation})
UpdateMarker(marker, shark) ==
    [marker EXCEPT !.x = shark.position.x, !.y = shark.position.y,
                   !.markerRotation = RadToDeg(shark.rotation_rad)]

\* variant: setSymbol, which replaces the whole symbol and so drops the
\* rotation
ResizeMarkerSetSymbol(marker, size) ==
    [marker EXCEPT !.markerWidth = size, !.markerHeight = size,
                   !.markerRotation = Num(0)]

\* marker.updateSymbol({markerWidth: size, markerHeight: size})
ResizeMarker(marker, size) ==
    [marker EXCEPT !.markerWidth = size, !.markerHeight = size]

\* the state a message handler works on
Work(markers, layerOf, geoms, nextId) ==
    [markers |-> markers, layerOf |-> layerOf, geoms |-> geoms,
     nextId |-> nextId, created |-> 0, updated |-> 0, thrown |-> FALSE]

\* vectorLayerRef.current?.addGeometry(marker)
AddGeometry(geoms, layerOf, id) ==
    IF layerOf = 0 THEN geoms
    ELSE [geoms EXCEPT ![layerOf] = Append(@, id)]

\* variant: a new marker is registered one index too far
ForEachBodyOffByOne(w, shark, idx, size) ==
    IF ~HasPosition(shark) THEN [w EXCEPT !.thrown = TRUE]
    ELSE IF idx \in DOMAIN w.markers
    THEN [w EXCEPT !.markers[idx] = UpdateMarker(@, shark),
                   !.updated = @ + 1]
    ELSE [w EXCEPT !.markers = (idx + 1 :> NewMarker(w.nextId, shark, size)) @@ @,
                   !.geoms = AddGeometry(@, w.layerOf, w.nextId),
                   !.nextId = @ + 1,
                   !.created = @ + 1]

\* the body of the forEach callback for (shark, idx); destructuring
\* position === undefined throws a TypeError
ForEachBody(w, shark, idx, size) ==
    IF ~HasPosition(shark) THEN [w EXCEPT !.thrown = TRUE]
    ELSE IF idx \in DOMAIN w.markers
    THEN [w EXCEPT !.markers[idx] = UpdateMarker(@, shark),
                   !.updated = @ + 1]
    ELSE [w EXCEPT !.markers = (idx :> NewMarker(w.nextId, shark, size)) @@ @,
                   !.geoms = AddGeometry(@, w.layerOf, w.nextId),
                   !.nextId = @ + 1,
                   !.created = @ + 1]

\* data.sharks.forEach(...): in index order, abandoned at the first throw
RECURSIVE ForEach(_, _, _, _)
ForEach(w, sharks, i, size) ==
    IF i > Len(sharks) \/ w.thrown THEN w
    ELSE ForEach(ForEachBody(w, sharks[i], i - 1, size), sharks, i + 1, size)

\* mapRef.current?.getZoom() || zoom
CurrentZoom(mapCurrent, z) ==
    IF mapCurrent = 0 \/ z = 0 THEN zoom ELSE z

\* variant: no guard on data.sharks, so forEach is called on whatever it is
TryBlockNoFieldGuard(w, msg, mapCurrent, z) ==
    IF ~msg.json THEN [w EXCEPT !.thrown = TRUE]
    ELSE IF msg.data.t = "null" THEN [w EXCEPT !.thrown = TRUE]
    ELSE IF msg.data.sharks.t # "array" THEN [w EXCEPT !.thrown = TRUE]
    ELSE ForEach(w, BatchOf(msg), 1, getMarkerSize(CurrentZoom(mapCurrent, z)))

\* the try block of ws.onmessage
TryBlock(w, msg, mapCurrent, z) ==
    IF ~msg.json THEN [w EXCEPT !.thrown = TRUE]                \* JSON.parse
    ELSE IF msg.data.t = "null" THEN [w EXCEPT !.thrown = TRUE] \* null.sharks
    ELSE IF msg.data.sharks.t \in {"undefined", "null"}
            \/ msg.data.sharks.t # "array" THEN w               \* return
    ELSE ForEach(w, BatchOf(msg), 1, getMarkerSize(CurrentZoom(mapCurrent, z)))

\* variant: no catch clause, the exception leaves the handler unlogged
OnMessageResultNoCatch(w, msg, mapCurrent, z) ==
    LET r == TryBlock(w, msg, mapCurrent, z)
    IN  [w |-> r, logged |-> 0, escaped |-> r.thrown]

\* try { ... } catch (err) { console.error(...) }: the result of the try
\* block, the console.error calls, and whether the exception leaves the handler
OnMessageResult(w, msg, mapCurrent, z) ==
    LET r == TryBlock(w, msg, mapCurrent, z)
    IN  [w |-> r, logged |-> IF r.thrown THEN 1 ELSE 0, escaped |-> FALSE]

\* variant: the zoom is read as in the message handler, getZoom() || zoom
updateAllMarkerSizesFallback(markers, mapCurrent, z) ==
    IF mapCurrent = 0 THEN markers
    ELSE [i \in DOMAIN markers |->
             ResizeMarker(markers[i], getMarkerSize(CurrentZoom(mapCurrent, z)))]

\* Object.values(sharkMarkersRef.current).forEach(updateSymbol)
updateAllMarkerSizes(markers, mapCurrent, z) ==
    IF mapCurrent = 0 THEN markers
    ELSE [i \in DOMAIN markers |-> ResizeMarker(markers[i], getMarkerSize(z))]

\* ------------------------------------------------------------------ actions
\* variant: the setup starts from an empty registry
SetupResetsMarkers ==
    /\ ~active
    /\ mapRef < MaxSetups
    /\ mapRef' = mapRef + 1
    /\ mapZoom' = zoom
    /\ mapRemoved' = FALSE
    /\ zoomPending' = FALSE
    /\ vectorLayerRef' = mapRef + 1
    /\ ws' = [ws EXCEPT ![mapRef + 1] = "CONNECTING"]
    /\ active' = TRUE
    /\ last' = Plain("setup", mapRef + 1)
    /\ sharkMarkersRef' = NoMarkers
    /\ UNCHANGED <<layers, nextMarkerId>>

\* useEffect: new GLMap, new VectorLayer, on("zoomend"), new WebSocket.
\* containerRef.current is set when an effect runs (the div is rendered
\* first), so the early return is never taken.  The refs outlive a cleanup:
\* a second run of the effect on the same instance finds sharkMarkersRef as
\* the first run left it.
Setup ==
    /\ ~active
    /\ mapRef < MaxSetups
    /\ mapRef' = mapRef + 1
    /\ mapZoom' = zoom
    /\ mapRemoved' = FALSE
    /\ zoomPending' = FALSE
    /\ vectorLayerRef' = mapRef + 1
    /\ ws' = [ws EXCEPT ![mapRef + 1] = "CONNECTING"]
    /\ active' = TRUE
    /\ last' = Plain("setup", mapRef + 1)
    /\ UNCHANGED <<layers, sharkMarkersRef, nextMarkerId>>

\* variant: the cleanup removes the map and leaves the socket alone
CleanupKeepsSocket ==
    /\ active
    /\ mapRemoved' = (mapRef # 0)
    /\ zoomPending' = FALSE
    /\ active' = FALSE
    /\ last' = Plain("cleanup", mapRef)
    /\ UNCHANGED <<mapRef, mapZoom, vectorLayerRef, layers, sharkMarkersRef,
                   nextMarkerId, ws>>

\* the effect's cleanup: ws.close(); mapRef.current?.remove()
Cleanup ==
    /\ active
    /\ ws' = [ws EXCEPT ![mapRef] =
                 IF @ \in {"CONNECTING", "OPEN"} THEN "CLOSING" ELSE @]
    /\ mapRemoved' = (mapRef # 0)
    /\ zoomPending' = FALSE
    /\ active' = FALSE
    /\ last' = Plain("cleanup", mapRef)
    /\ UNCHANGED <<mapRef, mapZoom, vectorLayerRef, layers, sharkMarkersRef,
                   nextMarkerId>>

\* ws.onopen: the socket connects
OnOpen(g) ==
    /\ ws[g] = "CONNECTING"
    /\ ws' = [ws EXCEPT ![g] = "OPEN"]
    /\ last' = Plain("open", g)
    /\ UNCHANGED <<mapRef, mapZoom, mapRemoved, zoomPending, vectorLayerRef,
                   layers, sharkMarkersRef, nextMarkerId, active>>

\* ws.onclose: the connection fails, the peer closes, or a local close() ends
OnClose(g) ==
    /\ ws[g] \in {"CONNECTING", "OPEN", "CLOSING"}
    /\ ws' = [ws EXCEPT ![g] = "CLOSED"]
    /\ last' = Plain("close", g)
    /\ UNCHANGED <<mapRef, mapZoom, mapRemoved, zoomPending, vectorLayerRef,
                   layers, sharkMarkersRef, nextMarkerId, active>>

\* ws.onmessage: a frame is delivered on an open socket
OnMessage(g, msg) ==
    /\ ws[g] = "OPEN"
    /\ LET r == OnMessageResult(
                    Work(sharkMarkersRef, vectorLayerRef, layers, nextMarkerId),
                    msg, mapRef, mapZoom)
       IN  /\ sharkMarkersRef' = r.w.markers
           /\ layers' = r.w.geoms
           /\ nextMarkerId' = r.w.nextId
           /\ last' = Did("message", g, msg,
                          r.w.created, r.w.updated, r.logged, r.escaped)
    /\ UNCHANGED <<mapRef, mapZoom, mapRemoved, zoomPending, vectorLayerRef,
                   ws, active>>

\* the user zooms the map: getZoom() changes, "zoomend" will follow
ZoomChange(z) ==
    /\ active
    /\ ~mapRemoved
    /\ z # mapZoom
    /\ mapZoom' = z
    /\ zoomPending' = TRUE
    /\ last' = Plain("zoom", mapRef)
    /\ UNCHANGED <<mapRef, mapRemoved, vectorLayerRef, layers, sharkMarkersRef,
                   nextMarkerId, ws, active>>

\* "zoomend" fires: updateAllMarkerSizes
ZoomEnd ==
    /\ zoomPending
    /\ sharkMarkersRef' = updateAllMarkerSizes(sharkMarkersRef, mapRef, mapZoom)
    /\ zoomPending' = FALSE
    /\ last' = Plain("zoomend", mapRef)
    /\ UNCHANGED <<mapRef, mapZoom, mapRemoved, vectorLayerRef, layers,
                   nextMarkerId, ws, active>>

Next ==
    \/ Setup
    \/ Cleanup
    \/ \E g \in Generations : OnOpen(g)
    \/ \E g \in Generations : OnClose(g)
    \/ \E g \in Generations, msg \in Messages : OnMessage(g, msg)
    \/ \E z \in ZoomLevels : ZoomChange(z)
    \/ ZoomEnd

Spec == Init /\ [][Next]_vars

\* ------------------------------------------------------------------ claims
\* what the claims read off a marker, stated without the model's operators
Degrees(rotation_rad) == rotation_rad.v * 45   \* quarter-pi units to degrees

\* size = baseSize * (13/10)^(z - referenceZoom), cross-multiplied
IsSizeAt(size, z) ==
    size.n * IntPow(10, z) * IntPow(13, referenceZoom)
        = size.d * baseSize * IntPow(13, z) * IntPow(10, referenceZoom)

HasSize(marker, z) ==
    IsSizeAt(marker.markerWidth, z) /\ IsSizeAt(marker.markerHeight, z)

Tracked == DOMAIN sharkMarkersRef

\* markers[idx] shows the position and the heading of shark
Reflects(markers, idx, shark) ==
    /\ idx \in DOMAIN markers
    /\ markers[idx].x = shark.position.x
    /\ markers[idx].y = shark.position.y
    /\ markers[idx].markerRotation = Num(Degrees(shark.rotation_rad))

\* idx is as it was: still absent, or the same marker with the same fields
Untouched(before, after, idx) ==
    IF idx \in DOMAIN before
    THEN idx \in DOMAIN after /\ after[idx] = before[idx]
    ELSE idx \notin DOMAIN after

SameSize(before, after, idx) ==
    /\ after[idx].markerWidth = before[idx].markerWidth
    /\ after[idx].markerHeight = before[idx].markerHeight

SamePlace(before, after, idx) ==
    /\ after[idx].x = before[idx].x
    /\ after[idx].y = before[idx].y
    /\ after[idx].markerRotation = before[idx].markerRotation

Closedish == {"CLOSING", "CLOSED"}

\* the last handler that ran was the message handler, given ...
LastWasMessage == last.op = "message"
LastWasBatch == LastWasMessage /\ IsBatch(last.msg)
LastWasWellFormedBatch == LastWasBatch /\ WellFormed(BatchOf(last.msg))

\* the step is the handling of the frame Frame, delivered on socket last'.g
Handled == last'.op = "message" /\ OnMessage(last'.g, last'.msg)
Frame == last'.msg

\* C1: after a well-formed batch is handled, the marker at every index of the
\* batch has the position and the rotation of the batch's record at that
\* index, whatever the marker held before (last write wins)
C1_LastWriteWins ==
    LastWasWellFormedBatch =>
        \A i \in 1..Len(BatchOf(last.msg)) :
            Reflects(sharkMarkersRef, i - 1, BatchOf(last.msg)[i])

\* the batch [B, A] has overwritten two existing markers
C1_Witness ==
    /\ LastWasMessage
    /\ last.msg = JsonFrame(Obj(Arr(<<SharkB, SharkA>>)))
    /\ last.updated = 2
    /\ Reflects(sharkMarkersRef, 0, SharkB)
    /\ Reflects(sharkMarkersRef, 1, SharkA)

\* C2 as stated: a frame that does not parse, or parses without a sharks
\* array, changes no marker and logs exactly one diagnostic
C2_OneDiagnosticAlways ==
    [][(Handled /\ ~IsBatch(Frame)) =>
           /\ sharkMarkersRef' = sharkMarkersRef
           /\ layers' = layers
           /\ last'.logged = 1]_vars

\* C2 amended: such a frame creates and changes no marker; it logs one
\* diagnostic when JSON.parse or the read of .sharks throws (not JSON, or
\* null), and none when the value parses and its sharks field is absent or
\* not an array
C2_DiscardedFrame ==
    [][(Handled /\ ~IsBatch(Frame)) =>
           /\ sharkMarkersRef' = sharkMarkersRef
           /\ layers' = layers
           /\ nextMarkerId' = nextMarkerId
           /\ last'.created = 0 /\ last'.updated = 0
           /\ last'.logged = IF ~Frame.json \/ Frame.data.t = "null"
                             THEN 1 ELSE 0]_vars

\* {"notSharks":[]} was handled while markers were tracked: nothing logged
C2_Witness ==
    /\ LastWasMessage
    /\ last.msg = JsonFrame(Obj(Undefined))
    /\ last.logged = 0
    /\ Tracked # {}

AllApplied(markers, sharks) ==
    \A i \in 1..Len(sharks) :
        /\ HasPosition(sharks[i])
        /\ (i - 1) \in DOMAIN markers
        /\ markers[i - 1].x = sharks[i].position.x
        /\ markers[i - 1].y = sharks[i].position.y
        /\ HasRotation(sharks[i]) =>
               markers[i - 1].markerRotation = Num(Degrees(sharks[i].rotation_rad))

\* C4: when the handler returns, a batch has been applied in full or has
\* created and changed no marker
C4_BatchAtomic ==
    [][(Handled /\ IsBatch(Frame)) =>
           \/ AllApplied(sharkMarkersRef', BatchOf(Frame))
           \/ sharkMarkersRef' = sharkMarkersRef]_vars

\* C5: a marker created by a batch has the size of the map's zoom at that
\* moment, for every zoom level (stated for well-formed batches handled
\* while no zoom change awaits its zoomend)
C5_CreatedAtCurrentZoom ==
    [][(/\ Handled /\ ~zoomPending
        /\ IsBatch(Frame) /\ WellFormed(BatchOf(Frame))) =>
           \A idx \in DOMAIN sharkMarkersRef' \ DOMAIN sharkMarkersRef :
               HasSize(sharkMarkersRef'[idx], mapZoom)]_vars

\* C6: when zoomend has been handled, every tracked marker has the size of
\* the map's zoom
C6_ZoomEndResizesAll ==
    last.op = "zoomend" =>
        \A idx \in Tracked : HasSize(sharkMarkersRef[idx], mapZoom)

\* zoomend was handled at zoom 0 for two markers
C6_Witness ==
    /\ last.op = "zoomend"
    /\ mapZoom = 0
    /\ Cardinality(Tracked) = 2

\* C7: a message changes the size of no marker that existed before it, and
\* only the zoomend handler changes the size of a marker at all
C7_UpdateKeepsSize ==
    [][ZoomEnd \/ \A idx \in DOMAIN sharkMarkersRef :
                      /\ idx \in DOMAIN sharkMarkersRef'
                      /\ SameSize(sharkMarkersRef, sharkMarkersRef', idx)]_vars

\* a batch updated a marker whose size is not the size of the map's zoom
C7_Witness ==
    /\ LastWasBatch /\ last.updated >= 1
    /\ 0 \in Tracked
    /\ ~HasSize(sharkMarkersRef[0], mapZoom)

\* C8: an index that has a marker keeps that same marker in every later
\* state, and a batch leaves every marker at or beyond its length as it was
C8_NeverShrinks ==
    [][/\ \A idx \in DOMAIN sharkMarkersRef :
              /\ idx \in DOMAIN sharkMarkersRef'
              /\ sharkMarkersRef'[idx].id = sharkMarkersRef[idx].id
       /\ (Handled /\ IsBatch(Frame)) =>
              \A idx \in DOMAIN sharkMarkersRef :
                  idx >= Len(BatchOf(Frame)) =>
                      sharkMarkersRef'[idx] = sharkMarkersRef[idx]]_vars

\* in the second setup, a batch of one record was handled while two markers
\* were tracked
C8_Witness ==
    /\ LastWasWellFormedBatch
    /\ Len(BatchOf(last.msg)) = 1 /\ last.updated = 1
    /\ Cardinality(Tracked) = 2
    /\ mapRef = 2

\* C9: a socket that is closing or closed stays so (no reconnect), the
\* cleanup leaves its socket closing or closed, and while no socket is open no
\* marker is created, moved or rotated
C9_ClosedStaysClosed ==
    [][/\ \A g \in Generations :
              ws[g] \in Closedish => ws'[g] \in Closedish
       /\ Cleanup => ws'[mapRef] \in Closedish
       /\ (\A g \in Generations : ws[g] # "OPEN") =>
              /\ DOMAIN sharkMarkersRef' = DOMAIN sharkMarkersRef
              /\ \A idx \in DOMAIN sharkMarkersRef :
                     SamePlace(sharkMarkersRef, sharkMarkersRef', idx)]_vars

\* the socket of the first setup, which delivered markers, is closed after
\* the cleanup, and the second setup has run
C9_Witness ==
    /\ ws[1] = "CLOSED"
    /\ Tracked # {}
    /\ mapRef = 2

\* C10: no exception leaves the message handler, the handler leaves the
\* socket open, and a well-formed batch handled right after a message that
\* was not one is applied in full
C10_NeverFatal ==
    [][Handled =>
           /\ ~last'.escaped
           /\ ws'[last'.g] = "OPEN"
           /\ (/\ LastWasMessage /\ ~LastWasWellFormedBatch
               /\ IsBatch(Frame) /\ WellFormed(BatchOf(Frame))) =>
                  /\ AllApplied(sharkMarkersRef', BatchOf(Frame))
                  /\ last'.created + last'.updated = Len(BatchOf(Frame))
                  /\ last'.logged = 0]_vars

\* a batch whose second record has no position was handled and logged, its
\* socket is still open and can deliver a well-formed batch
C10_Witness ==
    /\ LastWasMessage
    /\ last.msg = JsonFrame(Obj(Arr(<<SharkA, SharkNoPosition>>)))
    /\ last.logged = 1 /\ ~last.escaped
    /\ ws[last.g] = "OPEN"
    /\ ENABLED OnMessage(last.g, JsonFrame(Obj(Arr(<<SharkA, SharkB>>))))

\* the refs after the message handler has run on msg, starting from markers,
\* geoms and nextId, with the map and the layer as they are
After(markers, geoms, nextId, msg) ==
    OnMessageResult(Work(markers, vectorLayerRef, geoms, nextId),
                    msg, mapRef, mapZoom).w

\* C11: in every reachable state, handling a well-formed batch a second time
\* right after the first leaves the tracked set, and the position and the
\* rotation of every marker, as the first handling left them
C11_Idempotent ==
    \A msg \in Messages :
        (IsBatch(msg) /\ WellFormed(BatchOf(msg))) =>
            LET once == After(sharkMarkersRef, layers, nextMarkerId, msg)
                twice == After(once.markers, once.geoms, once.nextId, msg)
            IN  /\ DOMAIN twice.markers = DOMAIN once.markers
                /\ \A idx \in DOMAIN once.markers :
                       SamePlace(once.markers, twice.markers, idx)

\* the batch [A, B] has created two markers on an open socket, which can
\* deliver the same batch again
C11_Witness ==
    /\ LastWasMessage
    /\ last.msg = JsonFrame(Obj(Arr(<<SharkA, SharkB>>)))
    /\ last.created = 2
    /\ ws[last.g] = "OPEN"
    /\ ENABLED OnMessage(last.g, last.msg)

\* the records of a batch that carry a position
Placed(sharks) == {i \in 1..Len(sharks) : HasPosition(sharks[i])}

\* C12: when a parsed batch has been handled, every record (that carries a
\* position) has caused exactly one creation or one update, record N is on
\* the marker at index N, and no marker at an index beyond the batch has
\* changed
C12_PositionalExactlyOnce ==
    [][(Handled /\ IsBatch(Frame)) =>
           /\ last'.created + last'.updated = Cardinality(Placed(BatchOf(Frame)))
           /\ \A i \in 1..Len(BatchOf(Frame)) :
                  HasPosition(BatchOf(Frame)[i]) =>
                      /\ (i - 1) \in DOMAIN sharkMarkersRef'
                      /\ sharkMarkersRef'[i - 1].x = BatchOf(Frame)[i].position.x
                      /\ sharkMarkersRef'[i - 1].y = BatchOf(Frame)[i].position.y
           /\ \A idx \in DOMAIN sharkMarkersRef :
                  idx >= Len(BatchOf(Frame)) =>
                      sharkMarkersRef'[idx] = sharkMarkersRef[idx]]_vars

\* p < q for fractions with positive denominators
RatLess(p, q) == p.n * q.d < q.n * p.d

\* C13: the size at the map's zoom is above the size at every lower zoom
\* level and below the size at every higher one (the map's zoom takes every
\* level), and the size at the reference zoom 2 is baseSize = 10
C13_SizeMonotone ==
    /\ \A z \in ZoomLevels :
           /\ z < mapZoom => RatLess(getMarkerSize(z), getMarkerSize(mapZoom))
           /\ z > mapZoom => RatLess(getMarkerSize(mapZoom), getMarkerSize(z))
    /\ mapZoom = referenceZoom =>
           /\ getMarkerSize(mapZoom) = [n |-> baseSize, d |-> 1]
           /\ getMarkerSize(mapZoom) = [n |-> 10, d |-> 1]

\* zoomend at the highest zoom level has grown a marker beyond baseSize
C13_Witness ==
    /\ last.op = "zoomend"
    /\ mapZoom = MaxZoom
    /\ 0 \in Tracked
    /\ sharkMarkersRef[0].markerWidth = getMarkerSize(mapZoom)
    /\ RatLess([n |-> baseSize, d |-> 1], sharkMarkersRef[0].markerWidth)

\* headings in [0, 2 pi), in quarter-pi units
Headings == 0..7

\* C14: every record of a batch that was applied and has a heading leaves
\* rotation_rad * 180 / pi degrees on its marker, whether the marker was
\* created or updated, and the conversion gives 45 degrees per quarter pi for
\* every heading in [0, 2 pi)
C14_DegreesOnBothPaths ==
    [][(Handled /\ IsBatch(Frame)) =>
           /\ \A i \in 1..(last'.created + last'.updated) :
                  HasRotation(BatchOf(Frame)[i]) =>
                      sharkMarkersRef'[i - 1].markerRotation
                          = Num(Degrees(BatchOf(Frame)[i].rotation_rad))
           /\ \A k \in Headings : RadToDeg(Num(k)) = Num(45 * k)]_vars

\* the batch [B, B] has updated marker 0 and created marker 1, both now at
\* 90 degrees
C14_Witness ==
    /\ LastWasMessage
    /\ last.msg = JsonFrame(Obj(Arr(<<SharkB, SharkB>>)))
    /\ last.updated = 1 /\ last.created = 1
    /\ sharkMarkersRef[0].markerRotation = Num(90)
    /\ sharkMarkersRef[1].markerRotation = Num(90)

\* C15: while the effect is set up and no zoom change awaits its zoomend,
\* every tracked marker has the size of the map's zoom
C15_SizeConsistency ==
    (active /\ ~zoomPending) =>
        \A idx \in Tracked : HasSize(sharkMarkersRef[idx], mapZoom)

\* the number of times id occurs in the sequence ids
Occurrences(ids, id) == Cardinality({k \in 1..Len(ids) : ids[k] = id})

\* C16: while the effect is set up, every registered marker is on the layer
\* of the latest setup exactly once, and that layer holds only registered
\* markers
C16_RegisteredOnCurrentLayer ==
    active =>
        /\ \A idx \in Tracked :
               Occurrences(layers[vectorLayerRef], sharkMarkersRef[idx].id) = 1
        /\ \A k \in 1..Len(layers[vectorLayerRef]) :
               \E idx \in Tracked :
                   sharkMarkersRef[idx].id = layers[vectorLayerRef][k]

\* the larger of two naturals
Max(a, b) == IF a >= b THEN a ELSE b

\* C17: the tracked indices are always a contiguous prefix 0..n-1; n starts
\* at 0, a well-formed batch of length k takes n to the larger of n and k,
\* and no other step changes the tracked set, so that n is the longest batch
\* handled so far as long as every batch was well-formed
C17_ContiguousPrefix ==
    /\ Tracked = {}
    /\ [](Tracked = 0..(Cardinality(Tracked) - 1))
    /\ [][/\ (Handled /\ IsBatch(Frame) /\ WellFormed(BatchOf(Frame))) =>
                 DOMAIN sharkMarkersRef' =
                     0..(Max(Cardinality(Tracked), Len(BatchOf(Frame))) - 1)
          /\ last'.op # "message" =>
                 DOMAIN sharkMarkersRef' = DOMAIN sharkMarkersRef]_vars

\* C17 happens: a well-formed batch of two after a batch of one grew the
\* tracked set from {0} to {0, 1}
C17_Witness ==
    /\ LastWasWellFormedBatch
    /\ Len(BatchOf(last.msg)) = 2
    /\ last.updated = 1
    /\ last.created = 1
    /\ Tracked = {0, 1}

\* C18: handling a zoom-change event leaves the tracked set, every marker's
\* identity, position and rotation, the layers and the marker count as they
\* were, and without a map (mapRef.current null) the handler returns the
\* registry as it was
C18_ZoomEndOnlyResizes ==
    /\ [](\A z \in ZoomLevels :
              updateAllMarkerSizes(sharkMarkersRef, 0, z) = sharkMarkersRef)
    /\ [][ZoomEnd =>
              /\ DOMAIN sharkMarkersRef' = DOMAIN sharkMarkersRef
              /\ \A idx \in Tracked :
                     /\ SamePlace(sharkMarkersRef, sharkMarkersRef', idx)
                     /\ sharkMarkersRef'[idx].id = sharkMarkersRef[idx].id
              /\ layers' = layers
              /\ nextMarkerId' = nextMarkerId]_vars

\* C18 happens: a zoom-change event has just resized a marker that sits at
\* (5, 5) with heading 90 degrees
C18_Witness ==
    /\ last.op = "zoomend"
    /\ mapZoom = MaxZoom
    /\ 0 \in Tracked
    /\ sharkMarkersRef[0].x = 5
    /\ sharkMarkersRef[0].y = 5
    /\ sharkMarkersRef[0].markerRotation = Num(90)
    /\ sharkMarkersRef[0].markerWidth = getMarkerSize(MaxZoom)

====
